---- MODULE Spec2Model ----
(***************************************************************************)
(* Model of the two containers of the repository:                          *)
(*   - hash-map/src/lib.rs : Map<K, V>, a separate-chaining hash map with  *)
(*     an entry API;                                                       *)
(*   - vector/src/lib.rs   : Vector<T> over RawVec<T>, with its consuming  *)
(*     and draining iterators.                                             *)
(* The two containers are independent, so each has its own specification   *)
(* (Spec for the map, VecSpec for the vector).                             *)
(***************************************************************************)
EXTENDS Integers, Sequences, FiniteSets, TLC

(* ------------------------------ bounds --------------------------------- *)
\* keys offered to the map
NumKeys == 2
\* values offered to the map
NumVals == 2
\* FnvHasher results are drawn from 0..MaxHash
MaxHash == 2
\* the bucket array is not grown beyond this many buckets
MaxBuckets == 4
\* largest configured initial size (Map::new(Some(n)))
MaxInitSize == 2
\* usize is modelled with this many bits (wrapping arithmetic keeps its shape)
UsizeBits == 3

\* Vector handles (the original and its clones / conversions)
MaxVecs == 2
\* elements ever created (each push creates a new one)
MaxElems == 3
\* allocations ever made
MaxAllocs == 3
\* a buffer is not grown beyond this capacity
MaxCap == 4
\* largest length and capacity of a Vec<T> handed to From<Vec<T>>
MaxStdVec == 2
\* values an element can have
NumElemVals == 2
\* how far beyond the length an index handed to insert or remove can lie
MaxOver == 1

Keys == 1..NumKeys
Vals == 1..NumVals
UsizeModulus == 2^UsizeBits
UsizeMax == UsizeModulus - 1

\* Option<T>: None is the empty sequence, Some(x) the one-element sequence
None == <<>>
Some(x) == <<x>>

(* ------------------------------ state ---------------------------------- *)
VARIABLES
  buckets,         \* Map.buckets : Vec<Vec<(K, V)>>, a sequence of sequences of <<k, v>>
  items,           \* Map.items : usize
  SIZE,            \* Map.SIZE : Option<usize>
  hashOf,          \* the FnvHasher result of every key (fixed for a run)
  overflowChecks,  \* build profile: TRUE = overflow checks on (debug), FALSE = wrapping (release)
  panic,           \* "none", or the panic that ended the program
  handle,          \* the &mut V returned by or_insert / or_insert_with while it is borrowed
  last             \* the last operation: its name, arguments and result

mapVars == <<buckets, items, SIZE, hashOf, overflowChecks, panic, handle, last>>

\* the state of the vector (vector/src/lib.rs)
VARIABLES
  heap,      \* the global allocator: per allocation its state, capacity, slots, times freed
  vecs,      \* per handle: a Vector, the IntoIter made of it, or the Vec<T> made of it
  drops,     \* per element: how often each destructor path destroyed it
  out,       \* elements moved out to the caller (pop, next, next_back)
  nextElem,  \* the next element to be created
  ub,        \* "none", or the first undefined behaviour that happened
  vpanic,    \* None, or the assertion failure that ended the program: Some(<<index, len>>)
  vals,      \* per element: its value (0 while the element does not exist)
  lastv      \* the last vector operation: name, handle, result

vecVars == <<heap, vecs, drops, out, nextElem, ub, vpanic, vals, lastv>>

vars == <<mapVars, vecVars>>

Panicked == panic # "none"

(* --------------------------- pure helpers ------------------------------ *)
\* all pairs of the bucket array, buckets in storage order
RECURSIVE Flatten(_)
Flatten(bs) ==
  IF bs = <<>> THEN <<>> ELSE Head(bs) \o Flatten(Tail(bs))

\* number of pairs stored across all buckets
StoredCount(bs) == Len(Flatten(bs))

\* keys stored anywhere in the bucket array
StoredKeys(bs) == { Flatten(bs)[i][1] : i \in DOMAIN Flatten(bs) }

\* a search that never finds the key
PositionNever(bucket, k) == 0

\* Iterator::position on a bucket: index of the first pair with key k, 0 if none
Position(bucket, k) ==
  IF \E i \in DOMAIN bucket : bucket[i][1] = k
  THEN CHOOSE i \in DOMAIN bucket :
         /\ bucket[i][1] = k
         /\ \A j \in DOMAIN bucket : bucket[j][1] = k => i <= j
  ELSE 0

\* a bucket choice that ignores the hash
BucketIdxFirst(bs, k) == 1

\* Map::bucket: h_key % buckets.len(); a remainder by zero panics, which the
\* callers below test with Len(bs) = 0 before using the index (1-based here)
BucketIdx(bs, k) == (hashOf[k] % Len(bs)) + 1

\* Map::resize, target size
TargetSize(bs, size) ==
  IF Len(bs) = 0
  THEN (IF size # None THEN size[1] ELSE 1)
  ELSE 2 * Len(bs)

EmptyBuckets(n) == [i \in 1..n |-> <<>>]

\* Map::resize, the redistribution loop: every drained pair is pushed to the
\* bucket its hash selects in the new array
RECURSIVE Redistribute(_, _)
Redistribute(pairs, nb) ==
  IF pairs = <<>> THEN nb
  ELSE LET p == Head(pairs)
           idx == (hashOf[p[1]] % Len(nb)) + 1
       IN Redistribute(Tail(pairs), [nb EXCEPT ![idx] = Append(@, p)])

\* a resize that grows the array but leaves every pair in its old bucket
ResizeNoRehash(bs, size) ==
  bs \o EmptyBuckets(TargetSize(bs, size) - Len(bs))

\* Map::resize
Resize(bs, size) ==
  Redistribute(Flatten(bs), EmptyBuckets(TargetSize(bs, size)))

\* Map::len
MapLen == items

\* Map::is_empty
IsEmpty == items = 0

\* Vec::swap_remove(idx): the last pair takes the place of the removed one
SwapRemove(bucket, idx) ==
  LET n == Len(bucket)
  IN [i \in 1..(n - 1) |-> IF i = idx THEN bucket[n] ELSE bucket[i]]

\* what Map::get returns on bucket array bs (bs non-empty)
GetIn(bs, k) ==
  LET b == bs[BucketIdx(bs, k)]
      pos == Position(b, k)
  IN IF pos = 0 THEN None ELSE Some(b[pos][2])

\* the value stored under k anywhere in bs (independent of the hash), or None
ValueOf(bs, k) ==
  LET f == Flatten(bs)
  IN IF \E i \in DOMAIN f : f[i][1] = k
     THEN Some(f[CHOOSE i \in DOMAIN f : f[i][1] = k][2])
     ELSE None

\* the record of an operation: its name, arguments and result, whether it
\* resized the bucket array and how often it called the producer closure
Op(name, k, v, r, resized, fcalled) ==
  [op |-> name, key |-> k, val |-> v, ret |-> r, resized |-> resized,
   fcalled |-> fcalled]

(* ------------------------------ Init ----------------------------------- *)
MapInit ==
  /\ buckets = <<>>
  /\ items = 0
  /\ SIZE \in {None} \cup { Some(n) : n \in 0..MaxInitSize }
  /\ hashOf \in [Keys -> 0..MaxHash]
  /\ overflowChecks \in BOOLEAN
  /\ panic = "none"
  /\ handle = None
  /\ last = [op |-> "new", key |-> 0, val |-> 0, ret |-> None, resized |-> FALSE,
             fcalled |-> 0]

(* ----------------------------- actions --------------------------------- *)
\* a resize check that already fires at three quarters
NeedsResizeAtThreshold(bs, n) == Len(bs) = 0 \/ n >= (3 * Len(bs)) \div 4

\* the resize check of Map::insert on the counts before the insert
NeedsResize(bs, n) == Len(bs) = 0 \/ n > (3 * Len(bs)) \div 4

\* what Map::insert of (k, v) does to a map with buckets bs and item count n
InsertEffect(bs, n, k, v) ==
  LET needs == NeedsResize(bs, n)
      bs1 == IF needs THEN Resize(bs, SIZE) ELSE bs
  IN IF Len(bs1) = 0
     THEN \* self.bucket(&key): remainder by zero
          [buckets |-> bs1, items |-> n, panic |-> "rem_by_zero", ret |-> None,
           resized |-> needs]
     ELSE IF overflowChecks /\ n = UsizeMax
     THEN \* self.items += 1 overflows
          [buckets |-> bs1, items |-> n, panic |-> "add_overflow", ret |-> None,
           resized |-> needs]
     ELSE LET idx == BucketIdx(bs1, k)
              pos == Position(bs1[idx], k)
          IN IF pos # 0
             THEN [buckets |-> [bs1 EXCEPT ![idx][pos] = <<k, v>>],
                   items |-> (n + 1) % UsizeModulus, panic |-> "none",
                   ret |-> Some(bs1[idx][pos][2]), resized |-> needs]
             ELSE [buckets |-> [bs1 EXCEPT ![idx] = Append(@, <<k, v>>)],
                   items |-> (n + 1) % UsizeModulus, panic |-> "none",
                   ret |-> None, resized |-> needs]

\* Map::insert
Insert(k, v) ==
  /\ ~Panicked
  /\ LET r == InsertEffect(buckets, items, k, v)
     IN /\ Len(r.buckets) <= MaxBuckets
        /\ buckets' = r.buckets
        /\ items' = r.items
        /\ panic' = r.panic
        /\ last' = Op("insert", k, v, r.ret, r.resized, 0)
  /\ handle' = None
  /\ UNCHANGED <<SIZE, hashOf, overflowChecks, vecVars>>

\* Map::get
Get(k) ==
  /\ ~Panicked
  /\ IF Len(buckets) = 0
     THEN /\ panic' = "rem_by_zero"
          /\ last' = Op("get", k, 0, None, FALSE, 0)
     ELSE /\ panic' = "none"
          /\ last' = Op("get", k, 0, GetIn(buckets, k), FALSE, 0)
  /\ handle' = None
  /\ UNCHANGED <<buckets, items, SIZE, hashOf, overflowChecks, vecVars>>

\* Map::contains_key
ContainsKey(k) ==
  /\ ~Panicked
  /\ IF Len(buckets) = 0
     THEN /\ panic' = "rem_by_zero"
          /\ last' = Op("contains_key", k, 0, None, FALSE, 0)
     ELSE /\ panic' = "none"
          /\ last' = Op("contains_key", k, 0, <<GetIn(buckets, k) # None>>, FALSE, 0)
  /\ handle' = None
  /\ UNCHANGED <<buckets, items, SIZE, hashOf, overflowChecks, vecVars>>

\* Map::remove
Remove(k) ==
  /\ ~Panicked
  /\ IF Len(buckets) = 0
     THEN /\ panic' = "rem_by_zero"
          /\ last' = Op("remove", k, 0, None, FALSE, 0)
          /\ UNCHANGED <<buckets, items>>
     ELSE LET idx == BucketIdx(buckets, k)
              pos == Position(buckets[idx], k)
          IN IF pos = 0
             THEN \* position(..)? returns None
                  /\ panic' = "none"
                  /\ last' = Op("remove", k, 0, None, FALSE, 0)
                  /\ UNCHANGED <<buckets, items>>
             ELSE IF overflowChecks /\ items = 0
             THEN \* self.items -= 1 overflows
                  /\ panic' = "sub_overflow"
                  /\ last' = Op("remove", k, 0, None, FALSE, 0)
                  /\ UNCHANGED <<buckets, items>>
             ELSE /\ panic' = "none"
                  /\ items' = (items + UsizeModulus - 1) % UsizeModulus
                  /\ buckets' = [buckets EXCEPT ![idx] = SwapRemove(@, pos)]
                  /\ last' = Op("remove", k, 0, Some(buckets[idx][pos][2]), FALSE, 0)
  /\ handle' = None
  /\ UNCHANGED <<SIZE, hashOf, overflowChecks, vecVars>>

\* Map::clear
Clear ==
  /\ ~Panicked
  /\ items' = 0
  /\ buckets' = Resize(<<>>, SIZE)
  /\ last' = Op("clear", 0, 0, None, TRUE, 0)
  /\ handle' = None
  /\ UNCHANGED <<SIZE, hashOf, overflowChecks, panic, vecVars>>

\* what Map::entry of k followed by or_insert / or_insert_with of v does to
\* the bucket array bs: entry has no resize check and nothing counts the item
EntryEffect(bs, k, v) ==
  IF Len(bs) = 0
  THEN [buckets |-> bs, panic |-> "rem_by_zero", handle |-> None, vacant |-> FALSE]
  ELSE LET idx == BucketIdx(bs, k)
           pos == Position(bs[idx], k)
       IN IF pos # 0
          THEN \* Entry::Occupied
               [buckets |-> bs, panic |-> "none", handle |-> Some(<<idx, pos>>),
                vacant |-> FALSE]
          ELSE \* Entry::Vacant, VacEntry::insert
               [buckets |-> [bs EXCEPT ![idx] = Append(@, <<k, v>>)], panic |-> "none",
                handle |-> Some(<<idx, Len(bs[idx]) + 1>>), vacant |-> TRUE]

\* Map::entry followed by Entry::or_insert (withF = FALSE) or
\* Entry::or_insert_with (withF = TRUE, the producer returns v)
EntryOrInsert(name, k, v, withF) ==
  /\ ~Panicked
  /\ LET r == EntryEffect(buckets, k, v)
     IN /\ buckets' = r.buckets
        /\ panic' = r.panic
        /\ handle' = r.handle
        /\ last' = Op(name, k, v, r.handle, FALSE, IF withF /\ r.vacant THEN 1 ELSE 0)
  /\ UNCHANGED <<items, SIZE, hashOf, overflowChecks, vecVars>>

\* map.entry(k).or_insert(v)
OrInsert(k, v) == EntryOrInsert("or_insert", k, v, FALSE)

\* map.entry(k).or_insert_with(|| v)
OrInsertWith(k, v) == EntryOrInsert("or_insert_with", k, v, TRUE)

\* a write through the &mut V that or_insert / or_insert_with returned
WriteHandle(w) ==
  /\ ~Panicked
  /\ handle # None
  /\ LET idx == handle[1][1]
         pos == handle[1][2]
     IN /\ buckets' = [buckets EXCEPT ![idx][pos][2] = w]
        /\ last' = Op("write_handle", buckets[idx][pos][1], w, None, FALSE, 0)
  /\ handle' = None
  /\ UNCHANGED <<items, SIZE, hashOf, overflowChecks, panic, vecVars>>

MapNext ==
  \/ \E k \in Keys, v \in Vals : Insert(k, v)
  \/ \E k \in Keys : Get(k)
  \/ \E k \in Keys : ContainsKey(k)
  \/ \E k \in Keys : Remove(k)
  \/ Clear
  \/ \E k \in Keys, v \in Vals : OrInsert(k, v)
  \/ \E k \in Keys, v \in Vals : OrInsertWith(k, v)
  \/ \E w \in Vals : WriteHandle(w)


(* ------------------------- claims about the map ------------------------ *)
\* how often pair p occurs in the sequence of pairs
Occurrences(p, pairs) == Cardinality({ i \in DOMAIN pairs : pairs[i] = p })

\* C1: len() equals the number of pairs stored across all buckets, and
\* is_empty() is true exactly when no pair is stored.
C1_ItemCountIsStoredCount ==
  /\ MapLen = StoredCount(buckets)
  /\ IsEmpty <=> (StoredCount(buckets) = 0)

\* C2: insert(k, v_new) on a map that stores k with v_old returns v_old,
\* stores v_new under k and leaves the item count unchanged.
C2_ReinsertKeepsCount ==
  [][ (last'.op = "insert" /\ last'.key \in StoredKeys(buckets))
        => /\ last'.ret = ValueOf(buckets, last'.key)
           /\ ValueOf(buckets', last'.key) = Some(last'.val)
           /\ items' = items ]_mapVars

\* C3: get, contains_key and remove of a key that is not stored return the
\* 'no value' result without a fatal failure and without changing the map,
\* in every reachable state, a map just created by new() included.
C3_AbsentKeyIsNoValue ==
  [][ (last'.op \in {"get", "contains_key", "remove"}
         /\ last'.key \notin StoredKeys(buckets))
        => /\ panic' = "none"
           /\ last'.ret = (IF last'.op = "contains_key" THEN <<FALSE>> ELSE None)
           /\ buckets' = buckets
           /\ items' = items ]_mapVars

\* C5: entry(k).or_insert(v) on a map without k stores v under k; on a map
\* with k it leaves the stored value and returns a handle to it; a write
\* through the handle is seen by later lookups; or_insert_with calls its
\* producer exactly once in the vacant case and never in the occupied case.
C5_EntryOrInsert ==
  [][ /\ (last'.op \in {"or_insert", "or_insert_with"}
            /\ last'.key \notin StoredKeys(buckets))
          => /\ panic' = "none"
             /\ Len(buckets') > 0
             /\ GetIn(buckets', last'.key) = Some(last'.val)
             /\ last'.fcalled = (IF last'.op = "or_insert_with" THEN 1 ELSE 0)
      /\ (last'.op \in {"or_insert", "or_insert_with"}
            /\ last'.key \in StoredKeys(buckets))
          => /\ panic' = "none"
             /\ buckets' = buckets
             /\ handle' # None
             /\ buckets'[handle'[1][1]][handle'[1][2]]
                  = <<last'.key, ValueOf(buckets, last'.key)[1]>>
             /\ last'.fcalled = 0
      /\ (last'.op = "write_handle")
          => /\ Len(buckets') > 0
             /\ GetIn(buckets', last'.key) = Some(last'.val) ]_mapVars

\* C6: on a map that stores no pair (a map just created by new() included)
\* entry(k).or_insert(v) completes without failure and a following lookup of
\* k yields v.
C6_OrInsertOnEmptyMap ==
  [][ (last'.op = "or_insert" /\ StoredCount(buckets) = 0)
        => /\ panic' = "none"
           /\ Len(buckets') > 0
           /\ GetIn(buckets', last'.key) = Some(last'.val) ]_mapVars

\* C7: remove(k) of a stored key returns the stored value, decreases the item
\* count by exactly 1 without going below zero or failing, leaves every other
\* key's association unchanged, and a following get(k) returns absence.
C7_RemoveStoredKey ==
  [][ (last'.op = "remove" /\ last'.key \in StoredKeys(buckets))
        => /\ panic' = "none"
           /\ last'.ret = ValueOf(buckets, last'.key)
           /\ items >= 1
           /\ items' = items - 1
           /\ \A k \in Keys \ {last'.key} : ValueOf(buckets', k) = ValueOf(buckets, k)
           /\ GetIn(buckets', last'.key) = None ]_mapVars

\* C8: an insert that resizes preserves every previously stored key's
\* association (get(k) yields the old value right after the insert), and the
\* redistribution neither loses nor duplicates a pair.
C8_ResizePreservesPairs ==
  [][ (last'.op = "insert" /\ last'.resized)
        => /\ \A k \in StoredKeys(buckets) \ {last'.key} :
                /\ Len(buckets') > 0
                /\ GetIn(buckets', k) = ValueOf(buckets, k)
           /\ \A k \in Keys \ {last'.key} : \A v \in Vals :
                Occurrences(<<k, v>>, Flatten(buckets'))
                  = Occurrences(<<k, v>>, Flatten(buckets)) ]_mapVars

\* a resizing insert has completed on a map that already stored another key,
\* and the old pair now lies in a bucket other than the first
C8_Witness ==
  /\ last.op = "insert"
  /\ last.resized
  /\ ~Panicked
  /\ \E k \in StoredKeys(buckets) \ {last.key} : BucketIdx(buckets, k) > 1

\* C9: insert(k, v) followed immediately by get(k) yields v, in every
\* reachable map state, whether or not k was present and whether or not the
\* insert resized.
C9_InsertThenGet ==
  last.op = "insert"
    => /\ panic = "none"
       /\ Len(buckets) > 0
       /\ GetIn(buckets, last.key) = Some(last.val)


(***************************************************************************)
(*                      vector/src/lib.rs : Vector<T>                      *)
(* T is not zero-sized (Vector::new asserts it).  An element is a value    *)
(* with a destructor, named by a number; an allocation is named by a       *)
(* number too, 0 being the dangling pointer Unique::empty().               *)
(***************************************************************************)
Elems == 1..MaxElems
Allocs == 1..MaxAllocs
Handles == 1..MaxVecs
ElemVals == 1..NumElemVals

NoVec == [state |-> "none", ptr |-> 0, cap |-> 0, len |-> 0,
          start |-> 0, end |-> 0, orig |-> <<>>, fwd |-> <<>>, bwd |-> <<>>]

UnusedAlloc == [state |-> "unused", cap |-> 0, slots |-> <<>>, frees |-> 0]

VOp(name, h, r) == [op |-> name, h |-> h, ret |-> r, idx |-> 0]

\* the record of an operation that takes an index
VOpAt(name, h, r, idx) == [op |-> name, h |-> h, ret |-> r, idx |-> idx]

\* no undefined behaviour and no panic so far
Running == ub = "none" /\ vpanic = None

Uninit(n) == [i \in 1..n |-> 0]

Reverse(q) == [i \in 1..Len(q) |-> q[Len(q) + 1 - i]]

Range(q) == { q[i] : i \in DOMAIN q }

\* an allocation the allocator has not handed out yet
HasFresh(hp) == \E a \in Allocs : hp[a].state = "unused"
FreshAlloc(hp) == CHOOSE a \in Allocs :
                    /\ hp[a].state = "unused"
                    /\ \A b \in Allocs : hp[b].state = "unused" => a <= b

\* the buffer (ptr, cap) of v is what the allocator holds for ptr
ValidBuf(hp, v) ==
  v.cap = 0 \/ (v.ptr # 0 /\ hp[v.ptr].state = "live" /\ hp[v.ptr].cap = v.cap)

\* the live elements of a Vector, slots [0, len)
Live(hp, v) == IF v.len = 0 THEN <<>> ELSE SubSeq(hp[v.ptr].slots, 1, v.len)

\* Global.dealloc of the buffer of v (RawVec::drop): nothing for cap = 0
Dealloc(hp, v) ==
  IF v.cap = 0 THEN hp
  ELSE [hp EXCEPT ![v.ptr].state = "freed", ![v.ptr].frees = @ + 1]

\* the destructor path `by` destroys the elements of the set es once more
Destroy(d, es, by) ==
  [e \in Elems |-> IF e \in es THEN [d[e] EXCEPT ![by] = @ + 1] ELSE d[e]]

\* a growth by one slot
NewCapPlusOne(cap) == cap + 1

\* the capacity RawVec::grow goes to
NewCap(cap) == IF cap = 0 THEN 1 ELSE cap * 2

\* RawVec::grow; realloc either extends the allocation in place or moves it
Grow(hp, v, moved) ==
  IF v.cap = 0
  THEN LET a == FreshAlloc(hp)
       IN [heap |-> [hp EXCEPT ![a] = [state |-> "live", cap |-> NewCap(v.cap),
                                       slots |-> Uninit(NewCap(v.cap)), frees |-> 0]],
           ptr |-> a, cap |-> NewCap(v.cap), ub |-> "none"]
  ELSE IF ~ValidBuf(hp, v)
  THEN [heap |-> hp, ptr |-> v.ptr, cap |-> v.cap, ub |-> "realloc_of_invalid_buffer"]
  ELSE IF moved
  THEN LET b == FreshAlloc(hp)
       IN [heap |-> [hp EXCEPT ![v.ptr].state = "freed",
                               ![v.ptr].frees = @ + 1,
                               ![b] = [state |-> "live", cap |-> NewCap(v.cap),
                                       slots |-> hp[v.ptr].slots \o
                                                   Uninit(NewCap(v.cap) - v.cap),
                                       frees |-> 0]],
           ptr |-> b, cap |-> NewCap(v.cap), ub |-> "none"]
  ELSE [heap |-> [hp EXCEPT ![v.ptr].cap = NewCap(v.cap),
                            ![v.ptr].slots = @ \o Uninit(NewCap(v.cap) - v.cap)],
        ptr |-> v.ptr, cap |-> NewCap(v.cap), ub |-> "none"]

VecInit ==
  /\ heap = [a \in Allocs |-> UnusedAlloc]
  /\ vecs = [h \in Handles |-> NoVec]
  /\ drops = [e \in Elems |-> [vector |-> 0, iter |-> 0, drain |-> 0, std |-> 0]]
  /\ out = {}
  /\ nextElem = 1
  /\ ub = "none"
  /\ vpanic = None
  /\ vals = [e \in Elems |-> 0]
  /\ lastv = VOp("init", 0, None)

\* Vector::new
New(h) ==
  /\ Running
  /\ vecs[h].state = "none"
  /\ vecs' = [vecs EXCEPT ![h] = [NoVec EXCEPT !.state = "live"]]
  /\ lastv' = VOp("new", h, None)
  /\ UNCHANGED <<heap, drops, out, nextElem, ub, vpanic, vals, mapVars>>

\* Vector::push of a new element of value x
Push(h, x) ==
  /\ Running
  /\ vecs[h].state = "live"
  /\ nextElem <= MaxElems
  /\ LET v == vecs[h]
         needGrow == v.len = v.cap
     IN \E moved \in (IF needGrow /\ v.cap > 0 THEN BOOLEAN ELSE {FALSE}) :
          /\ needGrow => /\ NewCap(v.cap) <= MaxCap
                         /\ (v.cap = 0 \/ moved) => HasFresh(heap)
          /\ LET g == IF needGrow THEN Grow(heap, v, moved)
                      ELSE [heap |-> heap, ptr |-> v.ptr, cap |-> v.cap, ub |-> "none"]
                 w == [v EXCEPT !.ptr = g.ptr, !.cap = g.cap]
             IN IF g.ub # "none"
                THEN /\ ub' = g.ub
                     /\ UNCHANGED <<heap, vecs, nextElem, vals>>
                ELSE IF ~ValidBuf(g.heap, w)
                THEN /\ ub' = "write_to_invalid_buffer"
                     /\ UNCHANGED <<heap, vecs, nextElem, vals>>
                ELSE /\ heap' = [g.heap EXCEPT ![w.ptr].slots[v.len + 1] = nextElem]
                     /\ vecs' = [vecs EXCEPT ![h] = [w EXCEPT !.len = v.len + 1]]
                     /\ nextElem' = nextElem + 1
                     /\ vals' = [vals EXCEPT ![nextElem] = x]
                     /\ ub' = "none"
  /\ lastv' = VOp("push", h, Some(nextElem))
  /\ UNCHANGED <<drops, out, vpanic, mapVars>>

\* a pop that takes the first element instead of the last
PopFront(hp, v) ==
  IF v.len = 0
  THEN [len |-> 0, ret |-> None, ub |-> "none"]
  ELSE IF ~ValidBuf(hp, v) \/ hp[v.ptr].slots[1] = 0
  THEN [len |-> v.len, ret |-> None, ub |-> "read_of_invalid_slot"]
  ELSE [len |-> v.len - 1, ret |-> Some(hp[v.ptr].slots[1]), ub |-> "none"]

\* what Vector::pop does to the length of v and what it returns
PopResult(hp, v) ==
  IF v.len = 0
  THEN [len |-> 0, ret |-> None, ub |-> "none"]
  ELSE IF ~ValidBuf(hp, v) \/ hp[v.ptr].slots[v.len] = 0
  THEN [len |-> v.len, ret |-> None, ub |-> "read_of_invalid_slot"]
  ELSE [len |-> v.len - 1, ret |-> Some(hp[v.ptr].slots[v.len]), ub |-> "none"]

\* Vector::pop
Pop(h) ==
  /\ Running
  /\ vecs[h].state = "live"
  /\ LET r == PopResult(heap, vecs[h])
     IN /\ vecs' = [vecs EXCEPT ![h].len = r.len]
        /\ out' = out \cup Range(r.ret)
        /\ lastv' = VOp("pop", h, r.ret)
        /\ ub' = r.ub
  /\ UNCHANGED <<heap, drops, nextElem, vpanic, vals, mapVars>>

\* an insertion that writes e at idx without moving the elements behind it
InsertAtNoShift(hp, v, idx, e, moved) ==
  LET g == IF v.len = v.cap THEN Grow(hp, v, moved)
           ELSE [heap |-> hp, ptr |-> v.ptr, cap |-> v.cap, ub |-> "none"]
      w == [v EXCEPT !.ptr = g.ptr, !.cap = g.cap]
  IN IF g.ub # "none"
     THEN [heap |-> hp, v |-> v, ub |-> g.ub]
     ELSE IF ~ValidBuf(g.heap, w)
     THEN [heap |-> hp, v |-> v, ub |-> "write_to_invalid_buffer"]
     ELSE [heap |-> [g.heap EXCEPT ![w.ptr].slots[idx + 1] = e],
           v |-> [w EXCEPT !.len = v.len + 1],
           ub |-> "none"]

\* ptr::copy of the slots [idx, len) one slot up and ptr::write of e at idx
\* (Vector::insert after its assertion), growing first when len = cap
InsertAt(hp, v, idx, e, moved) ==
  LET g == IF v.len = v.cap THEN Grow(hp, v, moved)
           ELSE [heap |-> hp, ptr |-> v.ptr, cap |-> v.cap, ub |-> "none"]
      w == [v EXCEPT !.ptr = g.ptr, !.cap = g.cap]
  IN IF g.ub # "none"
     THEN [heap |-> hp, v |-> v, ub |-> g.ub]
     ELSE IF ~ValidBuf(g.heap, w)
     THEN [heap |-> hp, v |-> v, ub |-> "write_to_invalid_buffer"]
     ELSE LET old == g.heap[w.ptr].slots
          IN [heap |-> [g.heap EXCEPT ![w.ptr].slots =
                          [i \in 1..w.cap |->
                             IF i = idx + 1 THEN e
                             ELSE IF i > idx + 1 /\ i <= v.len + 1 THEN old[i - 1]
                             ELSE old[i]]],
              v |-> [w EXCEPT !.len = v.len + 1],
              ub |-> "none"]

\* a removal that leaves the gap open
RemoveAtNoShift(hp, v, idx) ==
  IF ~ValidBuf(hp, v) \/ hp[v.ptr].slots[idx + 1] = 0
  THEN [heap |-> hp, v |-> v, ret |-> None, ub |-> "read_of_invalid_slot"]
  ELSE [heap |-> hp, v |-> [v EXCEPT !.len = v.len - 1],
        ret |-> Some(hp[v.ptr].slots[idx + 1]), ub |-> "none"]

\* len -= 1, ptr::read of slot idx and ptr::copy of the slots (idx, len] one
\* slot down (Vector::remove after its assertion); the last slot keeps its bits
RemoveAt(hp, v, idx) ==
  IF ~ValidBuf(hp, v) \/ hp[v.ptr].slots[idx + 1] = 0
  THEN [heap |-> hp, v |-> v, ret |-> None, ub |-> "read_of_invalid_slot"]
  ELSE LET old == hp[v.ptr].slots
       IN [heap |-> [hp EXCEPT ![v.ptr].slots =
                       [i \in 1..v.cap |->
                          IF i >= idx + 1 /\ i <= v.len - 1 THEN old[i + 1] ELSE old[i]]],
           v |-> [v EXCEPT !.len = v.len - 1],
           ret |-> Some(old[idx + 1]),
           ub |-> "none"]

\* an insertion bound that lets one index too many through
InsertInBoundsLoose(idx, len) == idx <= len + 1

\* the condition of the assertion of Vector::insert
InsertInBounds(idx, len) == idx <= len

\* the condition of the assertion of Vector::remove
RemoveInBounds(idx, len) == idx < len

\* Vector::insert of a new element of value x at index idx
VecInsert(h, idx, x) ==
  /\ Running
  /\ vecs[h].state = "live"
  /\ nextElem <= MaxElems
  /\ LET v == vecs[h]
     IN IF ~InsertInBounds(idx, v.len)
        THEN /\ vpanic' = Some(<<"index", idx, "out of bounds", v.len>>)
             /\ lastv' = VOpAt("insert", h, None, idx)
             /\ UNCHANGED <<heap, vecs, nextElem, vals, ub>>
        ELSE \E moved \in (IF v.len = v.cap /\ v.cap > 0 THEN BOOLEAN ELSE {FALSE}) :
               /\ v.len = v.cap => /\ NewCap(v.cap) <= MaxCap
                                   /\ (v.cap = 0 \/ moved) => HasFresh(heap)
               /\ LET r == InsertAt(heap, v, idx, nextElem, moved)
                  IN /\ heap' = r.heap
                     /\ vecs' = [vecs EXCEPT ![h] = r.v]
                     /\ ub' = r.ub
                     /\ nextElem' = IF r.ub = "none" THEN nextElem + 1 ELSE nextElem
                     /\ vals' = IF r.ub = "none" THEN [vals EXCEPT ![nextElem] = x] ELSE vals
               /\ lastv' = VOpAt("insert", h, Some(nextElem), idx)
               /\ UNCHANGED vpanic
  /\ UNCHANGED <<drops, out, mapVars>>

\* Vector::remove of the element at index idx
VecRemove(h, idx) ==
  /\ Running
  /\ vecs[h].state = "live"
  /\ LET v == vecs[h]
     IN IF ~RemoveInBounds(idx, v.len)
        THEN /\ vpanic' = Some(<<"index", idx, "out of bounds", v.len>>)
             /\ lastv' = VOpAt("remove", h, None, idx)
             /\ UNCHANGED <<heap, vecs, out, ub>>
        ELSE LET r == RemoveAt(heap, v, idx)
             IN /\ heap' = r.heap
                /\ vecs' = [vecs EXCEPT ![h] = r.v]
                /\ out' = out \cup Range(r.ret)
                /\ ub' = r.ub
                /\ lastv' = VOpAt("remove", h, r.ret, idx)
                /\ UNCHANGED vpanic
  /\ UNCHANGED <<drops, nextElem, vals, mapVars>>

\* #[derive(Clone)] on Vector and RawVec: ptr, cap and len are copied
Clone(h, h2) ==
  /\ Running
  /\ vecs[h].state = "live"
  /\ vecs[h2].state = "none"
  /\ vecs' = [vecs EXCEPT ![h2] = vecs[h]]
  /\ lastv' = VOp("clone", h2, None)
  /\ UNCHANGED <<heap, drops, out, nextElem, ub, vpanic, vals, mapVars>>

\* Drop for Vector (pop until empty), then Drop for RawVec
DropVector(h) ==
  /\ Running
  /\ vecs[h].state = "live"
  /\ LET v == vecs[h]
     IN IF ~ValidBuf(heap, v)
        THEN /\ ub' = "drop_of_invalid_buffer"
             /\ UNCHANGED drops
        ELSE /\ ub' = (IF 0 \in Range(Live(heap, v)) THEN "read_of_invalid_slot" ELSE "none")
             /\ drops' = Destroy(drops, Range(Live(heap, v)), "vector")
  /\ heap' = Dealloc(heap, vecs[h])
  /\ vecs' = [vecs EXCEPT ![h] = [NoVec EXCEPT !.state = "gone"]]
  /\ lastv' = VOp("drop", h, None)
  /\ UNCHANGED <<out, nextElem, vpanic, vals, mapVars>>

\* Vector::into_iter: the cursor pair over [0, len), the buffer read out of
\* self, and self forgotten
IntoIter(h) ==
  /\ Running
  /\ vecs[h].state = "live"
  /\ LET v == vecs[h]
     IN vecs' = [vecs EXCEPT ![h] =
                   [v EXCEPT !.state = "iter", !.start = 0, !.end = v.len,
                             !.orig = IF ValidBuf(heap, v) THEN Live(heap, v) ELSE <<>>]]
  /\ lastv' = VOp("into_iter", h, None)
  /\ UNCHANGED <<heap, drops, out, nextElem, ub, vpanic, vals, mapVars>>

\* RawIter::next on the cursor pair of handle h, which is in state st
\* (an IntoIter or a Drain); name is the operation recorded
RawIterNext(h, st, name) ==
  /\ Running
  /\ vecs[h].state = st
  /\ LET v == vecs[h]
     IN IF v.start = v.end
        THEN /\ lastv' = VOp(name, h, None)
             /\ UNCHANGED <<vecs, out, ub>>
        ELSE IF ~ValidBuf(heap, v) \/ heap[v.ptr].slots[v.start + 1] = 0
        THEN /\ ub' = "read_of_invalid_slot"
             /\ lastv' = VOp(name, h, None)
             /\ UNCHANGED <<vecs, out>>
        ELSE LET e == heap[v.ptr].slots[v.start + 1]
             IN /\ vecs' = [vecs EXCEPT ![h].start = v.start + 1,
                                        ![h].fwd = Append(v.fwd, e)]
                /\ out' = out \cup {e}
                /\ lastv' = VOp(name, h, Some(e))
                /\ ub' = "none"
  /\ UNCHANGED <<heap, drops, nextElem, vpanic, vals, mapVars>>

\* RawIter::next_back on the cursor pair of handle h
RawIterNextBack(h, st, name) ==
  /\ Running
  /\ vecs[h].state = st
  /\ LET v == vecs[h]
     IN IF v.start = v.end
        THEN /\ lastv' = VOp(name, h, None)
             /\ UNCHANGED <<vecs, out, ub>>
        ELSE IF ~ValidBuf(heap, v) \/ heap[v.ptr].slots[v.end] = 0
        THEN /\ ub' = "read_of_invalid_slot"
             /\ lastv' = VOp(name, h, None)
             /\ UNCHANGED <<vecs, out>>
        ELSE LET e == heap[v.ptr].slots[v.end]
             IN /\ vecs' = [vecs EXCEPT ![h].end = v.end - 1,
                                        ![h].bwd = Append(v.bwd, e)]
                /\ out' = out \cup {e}
                /\ lastv' = VOp(name, h, Some(e))
                /\ ub' = "none"
  /\ UNCHANGED <<heap, drops, nextElem, vpanic, vals, mapVars>>

\* IntoIter::next
Next(h) == RawIterNext(h, "iter", "next")

\* IntoIter::next_back
NextBack(h) == RawIterNextBack(h, "iter", "next_back")

\* the elements between the cursors
Unyielded(hp, v) ==
  IF v.start = v.end THEN <<>> ELSE SubSeq(hp[v.ptr].slots, v.start + 1, v.end)

\* a drop of the iterator that releases the buffer without draining it
DropIterNoDrain(h) ==
  /\ Running
  /\ vecs[h].state = "iter"
  /\ heap' = Dealloc(heap, vecs[h])
  /\ vecs' = [vecs EXCEPT ![h].state = "itergone"]
  /\ lastv' = VOp("drop_iter", h, None)
  /\ UNCHANGED <<drops, out, nextElem, ub, vpanic, vals, mapVars>>

\* Drop for IntoIter (`for _ in &mut *self {}`), then Drop for its RawVec
DropIter(h) ==
  /\ Running
  /\ vecs[h].state = "iter"
  /\ LET v == vecs[h]
     IN IF v.start # v.end /\ ~ValidBuf(heap, v)
        THEN /\ ub' = "read_of_invalid_slot"
             /\ UNCHANGED drops
        ELSE /\ ub' = (IF 0 \in Range(Unyielded(heap, v)) THEN "read_of_invalid_slot"
                       ELSE IF ~ValidBuf(heap, v) THEN "drop_of_invalid_buffer"
                       ELSE "none")
             /\ drops' = Destroy(drops, Range(Unyielded(heap, v)), "iter")
  /\ heap' = Dealloc(heap, vecs[h])
  /\ vecs' = [vecs EXCEPT ![h].state = "itergone"]
  /\ lastv' = VOp("drop_iter", h, None)
  /\ UNCHANGED <<out, nextElem, vpanic, vals, mapVars>>

\* a drain that leaves the length of the array as it was
DrainKeepLen(h) ==
  /\ Running
  /\ vecs[h].state = "live"
  /\ LET v == vecs[h]
     IN vecs' = [vecs EXCEPT ![h] =
                   [v EXCEPT !.state = "drain", !.start = 0, !.end = v.len,
                             !.orig = IF ValidBuf(heap, v) THEN Live(heap, v) ELSE <<>>]]
  /\ lastv' = VOp("drain", h, None)
  /\ UNCHANGED <<heap, drops, out, nextElem, ub, vpanic, vals, mapVars>>

\* Vector::drain: the cursor pair over [0, len), then self.len = 0; the array
\* stays mutably borrowed (state "drain") until the Drain is dropped
Drain(h) ==
  /\ Running
  /\ vecs[h].state = "live"
  /\ LET v == vecs[h]
     IN vecs' = [vecs EXCEPT ![h] =
                   [v EXCEPT !.state = "drain", !.start = 0, !.end = v.len, !.len = 0,
                             !.orig = IF ValidBuf(heap, v) THEN Live(heap, v) ELSE <<>>]]
  /\ lastv' = VOp("drain", h, None)
  /\ UNCHANGED <<heap, drops, out, nextElem, ub, vpanic, vals, mapVars>>

\* Drain::next
DrainNext(h) == RawIterNext(h, "drain", "drain_next")

\* Drain::next_back
DrainNextBack(h) == RawIterNextBack(h, "drain", "drain_next_back")

\* Drop for Drain (`for _ in &mut *self {}`); the borrow of the array ends
DropDrain(h) ==
  /\ Running
  /\ vecs[h].state = "drain"
  /\ LET v == vecs[h]
     IN IF v.start # v.end /\ ~ValidBuf(heap, v)
        THEN /\ ub' = "read_of_invalid_slot"
             /\ UNCHANGED drops
        ELSE /\ ub' = (IF 0 \in Range(Unyielded(heap, v)) THEN "read_of_invalid_slot"
                       ELSE "none")
             /\ drops' = Destroy(drops, Range(Unyielded(heap, v)), "drain")
  /\ vecs' = [vecs EXCEPT ![h] = [NoVec EXCEPT !.state = "live", !.ptr = vecs[h].ptr,
                                               !.cap = vecs[h].cap, !.len = vecs[h].len]]
  /\ lastv' = VOp("drop_drain", h, IF ValidBuf(heap, vecs[h])
                                      THEN Unyielded(heap, vecs[h]) ELSE <<>>)
  /\ UNCHANGED <<heap, out, nextElem, vpanic, vals, mapVars>>

\* Into<Vec<T>> for Vector<T>: ptr, len and cap go to Vec::from_raw_parts
IntoStdVec(h) ==
  /\ Running
  /\ vecs[h].state = "live"
  /\ vecs' = [vecs EXCEPT ![h].state = "vec"]
  /\ lastv' = VOp("into_vec", h, None)
  /\ UNCHANGED <<heap, drops, out, nextElem, ub, vpanic, vals, mapVars>>

\* a conversion that takes the length of the Vec for the capacity
FromStdVecExactCap(h) ==
  /\ Running
  /\ vecs[h].state = "vec"
  /\ vecs' = [vecs EXCEPT ![h].state = "live", ![h].cap = vecs[h].len]
  /\ lastv' = VOp("from_vec", h, None)
  /\ UNCHANGED <<heap, drops, out, nextElem, ub, vpanic, vals, mapVars>>

\* From<Vec<T>> for Vector<T>: ptr, capacity and len are taken, the Vec forgotten
FromStdVec(h) ==
  /\ Running
  /\ vecs[h].state = "vec"
  /\ vecs' = [vecs EXCEPT ![h].state = "live"]
  /\ lastv' = VOp("from_vec", h, None)
  /\ UNCHANGED <<heap, drops, out, nextElem, ub, vpanic, vals, mapVars>>

\* a Vec<T> of new elements with the values xs and capacity c built by the
\* caller (vec![..])
NewStdVec(h, xs, c) ==
  /\ Running
  /\ vecs[h].state = "none"
  /\ Len(xs) <= c
  /\ nextElem + Len(xs) <= MaxElems + 1
  /\ c > 0 => HasFresh(heap)
  /\ LET a == IF c = 0 THEN 0 ELSE FreshAlloc(heap)
     IN /\ heap' = IF c = 0 THEN heap
                   ELSE [heap EXCEPT ![a] =
                           [state |-> "live", cap |-> c, frees |-> 0,
                            slots |-> [i \in 1..c |-> IF i <= Len(xs) THEN nextElem + i - 1 ELSE 0]]]
        /\ vecs' = [vecs EXCEPT ![h] = [NoVec EXCEPT !.state = "vec", !.ptr = a,
                                                     !.cap = c, !.len = Len(xs)]]
  /\ nextElem' = nextElem + Len(xs)
  /\ lastv' = VOp("new_vec", h, None)
  /\ vals' = [e \in Elems |-> IF e >= nextElem /\ e < nextElem + Len(xs)
                                THEN xs[e - nextElem + 1] ELSE vals[e]]
  /\ UNCHANGED <<drops, out, ub, vpanic, mapVars>>

\* the drop of a Vec<T>: its elements are destroyed and its buffer released
DropStdVec(h) ==
  /\ Running
  /\ vecs[h].state = "vec"
  /\ LET v == vecs[h]
     IN IF ~ValidBuf(heap, v)
        THEN /\ ub' = "drop_of_invalid_buffer"
             /\ UNCHANGED drops
        ELSE /\ ub' = (IF 0 \in Range(Live(heap, v)) THEN "read_of_invalid_slot" ELSE "none")
             /\ drops' = Destroy(drops, Range(Live(heap, v)), "std")
  /\ heap' = Dealloc(heap, vecs[h])
  /\ vecs' = [vecs EXCEPT ![h] = [NoVec EXCEPT !.state = "gone"]]
  /\ lastv' = VOp("drop_vec", h, None)
  /\ UNCHANGED <<out, nextElem, vpanic, vals, mapVars>>

\* PartialEq for Vector<T>: the slices [0, len) of both, compared by length
\* and then element by element with T's ==
SliceEq(hp, a, b) ==
  /\ a.len = b.len
  /\ \A i \in 1..a.len : vals[hp[a.ptr].slots[i]] = vals[hp[b.ptr].slots[i]]

\* h == h2
Equals(h, h2) ==
  /\ Running
  /\ h # h2
  /\ vecs[h].state = "live" /\ vecs[h2].state = "live"
  /\ LET a == vecs[h]
         b == vecs[h2]
         sound == /\ a.len > 0 => ValidBuf(heap, a) /\ 0 \notin Range(Live(heap, a))
                  /\ b.len > 0 => ValidBuf(heap, b) /\ 0 \notin Range(Live(heap, b))
     IN IF sound
        THEN /\ lastv' = VOpAt("eq", h, Some(SliceEq(heap, a, b)), h2)
             /\ ub' = "none"
        ELSE /\ lastv' = VOpAt("eq", h, None, h2)
             /\ ub' = "read_of_invalid_slot"
  /\ UNCHANGED <<heap, vecs, drops, out, nextElem, vpanic, vals, mapVars>>

\* the operations of the first kind: construction, push, pop, the owning
\* iterator, the conversions and the destructors; element values play no part
\* in them, so every new element has the value 1
VecOps ==
  \/ \E h \in Handles : New(h)
  \/ \E h \in Handles : Push(h, 1)
  \/ \E h \in Handles : Pop(h)
  \/ \E h \in Handles : DropVector(h)
  \/ \E h \in Handles : IntoIter(h)
  \/ \E h \in Handles : Next(h)
  \/ \E h \in Handles : NextBack(h)
  \/ \E h \in Handles : DropIter(h)
  \/ \E h \in Handles : IntoStdVec(h)
  \/ \E h \in Handles : FromStdVec(h)
  \/ \E h \in Handles : \E n \in 0..MaxStdVec : \E c \in 0..MaxStdVec :
       NewStdVec(h, [i \in 1..n |-> 1], c)
  \/ \E h \in Handles : DropStdVec(h)

\* the operations that edit an array in place: push, pop, insert, remove and
\* drain, with construction and the destructor
EditOps ==
  \/ \E h \in Handles : New(h)
  \/ \E h \in Handles : Push(h, 1)
  \/ \E h \in Handles : Pop(h)
  \/ \E h \in Handles : \E idx \in 0..(vecs[h].len + MaxOver) : VecInsert(h, idx, 1)
  \/ \E h \in Handles : \E idx \in 0..(vecs[h].len + MaxOver) : VecRemove(h, idx)
  \/ \E h \in Handles : Drain(h)
  \/ \E h \in Handles : DrainNext(h)
  \/ \E h \in Handles : DrainNextBack(h)
  \/ \E h \in Handles : DropDrain(h)
  \/ \E h \in Handles : DropVector(h)

VecNext ==
  \/ VecOps
  \/ \E h \in Handles, h2 \in Handles : Clone(h, h2)

(* --------------------------- specifications ---------------------------- *)
\* one map, constructed and never used, for the runs of the vector
MapIdle ==
  /\ MapInit
  /\ SIZE = None
  /\ hashOf = [k \in Keys |-> 0]
  /\ overflowChecks

\* a new map and no vector
Init == MapInit /\ VecInit

\* no vector, and the idle map
VecOnlyInit == VecInit /\ MapIdle

\* the hash map; the vector stays as constructed
Spec == Init /\ [][MapNext]_vars

\* the vector with every operation, clone included; the map stays as constructed
VecSpec == VecOnlyInit /\ [][VecNext]_vars

\* the vector with every operation but clone
OwnedVecSpec == VecOnlyInit /\ [][VecOps]_vars

\* arrays of elements with values, built by push or from a Vec, converted
\* and compared
ValueOps ==
  \/ \E h \in Handles : New(h)
  \/ \E h \in Handles : \E x \in ElemVals : Push(h, x)
  \/ \E h \in Handles : IntoStdVec(h)
  \/ \E h \in Handles : FromStdVec(h)
  \/ \E h \in Handles : \E n \in 0..MaxStdVec : \E xs \in [1..n -> ElemVals] :
       \E c \in 0..MaxStdVec : NewStdVec(h, xs, c)
  \/ \E h \in Handles, h2 \in Handles : Equals(h, h2)
  \/ \E h \in Handles : DropVector(h)
  \/ \E h \in Handles : DropStdVec(h)

\* the vector converted and compared
ValueSpec == VecOnlyInit /\ [][ValueOps]_vars

\* the operations that edit an array in place, on arrays built by new or
\* converted from a Vec<T>
ArrayOps ==
  \/ EditOps
  \/ \E h \in Handles : \E n \in 0..MaxStdVec : \E c \in 0..MaxStdVec :
       NewStdVec(h, [i \in 1..n |-> 1], c)
  \/ \E h \in Handles : FromStdVec(h)

\* the vector edited in place, conversions from Vec included
ArraySpec == VecOnlyInit /\ [][ArrayOps]_vars

\* the vector edited in place
EditSpec == VecOnlyInit /\ [][EditOps]_vars

(* ----------------------- claims about the vector ----------------------- *)
\* handle h holds a buffer with an allocation behind it
Owns(h) == vecs[h].state \in {"live", "iter", "vec"} /\ vecs[h].cap # 0

\* C4: every allocation is owned by exactly one buffer at a time and is
\* released exactly once: no two live buffers refer to the same allocation,
\* no allocation is freed twice and none is left without an owner.
C4_ExclusiveOwnership ==
  /\ \A h1 \in Handles : \A h2 \in Handles :
       (h1 # h2 /\ Owns(h1) /\ Owns(h2)) => vecs[h1].ptr # vecs[h2].ptr
  /\ \A a \in Allocs : heap[a].frees <= 1
  /\ \A a \in Allocs :
       heap[a].state = "live" => \E h \in Handles : Owns(h) /\ vecs[h].ptr = a

\* the element at index i of the iterated array has been yielded
Yielded(v, i) == i <= Len(v.fwd) \/ i > Len(v.orig) - Len(v.bwd)

\* C10: into_iter over an array of length n yields each of the n elements
\* exactly once, in index order from the front (and in reverse index order
\* from the back) for any interleaving of next and next_back; on drop every
\* unyielded element is destroyed exactly once, no yielded element is
\* destroyed by the iterator, and the array's own destructor destroys nothing.
C10_IntoIterYieldsOnce ==
  \A h \in Handles :
    LET v == vecs[h]
        n == Len(v.orig)
    IN v.state \in {"iter", "itergone"} =>
         /\ ub = "none"
         /\ Cardinality(Range(v.orig)) = n
         /\ v.start = Len(v.fwd)
         /\ v.end = n - Len(v.bwd)
         /\ v.start <= v.end
         /\ v.fwd = SubSeq(v.orig, 1, Len(v.fwd))
         /\ v.bwd = Reverse(SubSeq(v.orig, n - Len(v.bwd) + 1, n))
         /\ (lastv.h = h /\ lastv.op = "next")
              => IF lastv.ret = None THEN v.fwd \o Reverse(v.bwd) = v.orig
                 ELSE lastv.ret = Some(v.orig[Len(v.fwd)])
         /\ (lastv.h = h /\ lastv.op = "next_back")
              => IF lastv.ret = None THEN v.fwd \o Reverse(v.bwd) = v.orig
                 ELSE lastv.ret = Some(v.orig[n + 1 - Len(v.bwd)])
         /\ \A i \in 1..n :
              drops[v.orig[i]] =
                [vector |-> 0, std |-> 0, drain |-> 0,
                 iter |-> IF v.state = "itergone" /\ ~Yielded(v, i) THEN 1 ELSE 0]

\* an iterator over three elements was dropped after next and next_back had
\* each yielded one element, with one element left unyielded
C10_Witness ==
  \E h \in Handles :
    /\ vecs[h].state = "itergone"
    /\ Len(vecs[h].orig) = 3
    /\ Len(vecs[h].fwd) = 1
    /\ Len(vecs[h].bwd) = 1

\* the destructor paths that have destroyed element e, counted together
TimesDestroyed(e) ==
  drops[e].vector + drops[e].iter + drops[e].drain + drops[e].std

\* C11 in every state: an array being drained has length 0, the drain has
\* yielded a prefix and a suffix of the drained elements in index order, and
\* no element is destroyed twice or destroyed after it was handed out
C11_State ==
  /\ ub = "none"
  /\ \A e \in Elems : TimesDestroyed(e) <= 1 /\ (e \in out => TimesDestroyed(e) = 0)
  /\ \A h \in Handles :
       LET v == vecs[h]
           n == Len(v.orig)
       IN v.state = "drain" =>
            /\ v.len = 0
            /\ Cardinality(Range(v.orig)) = n
            /\ v.start = Len(v.fwd) /\ v.end = n - Len(v.bwd) /\ v.start <= v.end
            /\ v.fwd = SubSeq(v.orig, 1, Len(v.fwd))
            /\ v.bwd = Reverse(SubSeq(v.orig, n - Len(v.bwd) + 1, n))
            /\ \A i \in 1..n : /\ TimesDestroyed(v.orig[i]) = 0
                               /\ Yielded(v, i) <=> v.orig[i] \in out

\* C11 in every step: drain sets the length to 0 and keeps pointer, capacity
\* and slots; dropping the drain destroys exactly the elements not yielded
C11_Step ==
  LET h == lastv'.h
      v == vecs[h]
  IN /\ lastv'.op = "drain" =>
          /\ vecs'[h].len = 0
          /\ vecs'[h].ptr = v.ptr /\ vecs'[h].cap = v.cap
          /\ heap' = heap /\ drops' = drops /\ out' = out
          /\ vecs'[h].orig = Live(heap, v)
          /\ vecs'[h].fwd = <<>> /\ vecs'[h].bwd = <<>>
     /\ lastv'.op = "drop_drain" =>
          /\ vecs'[h].state = "live" /\ vecs'[h].len = 0
          /\ vecs'[h].ptr = v.ptr /\ vecs'[h].cap = v.cap
          /\ heap' = heap /\ out' = out
          /\ \A i \in 1..Len(v.orig) :
               LET e == v.orig[i]
               IN IF Yielded(v, i)
                  THEN /\ e \in out
                       /\ drops'[e] = [vector |-> 0, iter |-> 0, std |-> 0, drain |-> 0]
                  ELSE /\ e \notin out
                       /\ drops'[e] = [vector |-> 0, iter |-> 0, std |-> 0, drain |-> 1]

\* C11: drain() sets the array's length to 0 at once and keeps its buffer;
\* every element live before the call is either yielded by the drain exactly
\* once or, when the drain is dropped early, destroyed exactly once by the
\* drain's cleanup; none is destroyed twice (not by the drain and later by
\* the array) and none is left undestroyed.
C11_DrainYieldsOrDestroysOnce == []C11_State /\ [][C11_Step]_vars

\* a drain over three elements was dropped after next and next_back had each
\* yielded one element, and its cleanup destroyed the element left
C11_Witness ==
  /\ lastv.op = "drop_drain"
  /\ Len(lastv.ret) = 1
  /\ drops[lastv.ret[1]].drain = 1
  /\ Cardinality(out) = 2
  /\ vecs[lastv.h].cap = 4

\* C12: for every array of length n, every index i in [0, n] and every
\* element x, insert(i, x) immediately followed by remove(i) returns x and
\* restores the array's element sequence and length to what they were before
\* the insert, also when the insert had to grow the buffer.
C12_InsertThenRemove ==
  [][LET h == lastv'.h
         i == lastv'.idx
         v == vecs[h]
         before == Live(heap, v)
         r == RemoveAt(heap', vecs'[h], i)
     IN /\ (lastv'.op = "insert" /\ lastv'.ret # None) =>
             /\ ub' = "none"
             /\ vecs'[h].len = v.len + 1
             /\ Live(heap', vecs'[h]) =
                  SubSeq(before, 1, i) \o lastv'.ret \o SubSeq(before, i + 1, v.len)
             /\ RemoveInBounds(i, vecs'[h].len)
             /\ r.ub = "none"
             /\ r.ret = lastv'.ret
             /\ r.v.len = v.len
             /\ Live(r.heap, r.v) = before
        /\ (/\ lastv.op = "insert" /\ lastv.ret # None
            /\ lastv'.op = "remove" /\ lastv'.h = lastv.h /\ lastv'.idx = lastv.idx)
             => /\ lastv'.ret = lastv.ret
                /\ vecs'[h].len = v.len - 1
                /\ Live(heap', vecs'[h]) =
                     SubSeq(before, 1, i) \o SubSeq(before, i + 2, v.len)
    ]_vars

\* an element was inserted in the middle of a full array of two elements,
\* which had to grow, and removed again from the same index
C12_Witness ==
  /\ lastv.op = "remove"
  /\ lastv.idx = 1
  /\ lastv.ret = Some(3)
  /\ vecs[lastv.h].len = 2
  /\ vecs[lastv.h].cap = 4
  /\ Live(heap, vecs[lastv.h]) = <<1, 2>>

\* C13: push(x) appends x as the last element and increases the length by
\* exactly one; pop() on an array of length 0 returns None and changes
\* nothing; pop() immediately after push(x) returns x and leaves the
\* sequence that existed before the push.
C13_PushPop ==
  [][LET h == lastv'.h
         v == vecs[h]
         before == Live(heap, v)
         r == PopResult(heap', vecs'[h])
     IN /\ lastv'.op = "push" =>
             /\ ub' = "none"
             /\ vecs'[h].len = v.len + 1
             /\ Live(heap', vecs'[h]) = before \o lastv'.ret
             /\ r.ub = "none"
             /\ r.ret = lastv'.ret
             /\ r.len = v.len
             /\ Live(heap', [vecs'[h] EXCEPT !.len = r.len]) = before
        /\ (lastv'.op = "pop" /\ v.len = 0) =>
             /\ lastv'.ret = None
             /\ UNCHANGED <<heap, vecs, drops, out, ub, vpanic>>
        /\ (lastv.op = "push" /\ lastv'.op = "pop" /\ lastv'.h = lastv.h) =>
             /\ lastv'.ret = lastv.ret
             /\ vecs'[h].len = v.len - 1
             /\ Live(heap', vecs'[h]) = SubSeq(before, 1, v.len - 1)
    ]_vars

\* three elements were pushed on a new array, which is then of length three,
\* and a pop returned the third
C13_Witness ==
  /\ lastv.op = "pop"
  /\ lastv.ret = Some(3)
  /\ out = {3}
  /\ vecs[lastv.h].len = 2
  /\ Live(heap, vecs[lastv.h]) = <<1, 2>>

\* C14: across push, pop, insert, remove and drain the capacity of an array
\* never decreases; it changes only in grow(), which sets it to 1 when it was
\* 0 and to exactly twice its previous value otherwise, and grow() happens
\* only when the length equals the capacity.
C14_CapacityOnlyGrows ==
  [][\A h \in Handles :
       LET v == vecs[h]
           w == vecs'[h]
       IN (v.state \in {"live", "drain"} /\ w.state \in {"live", "drain"}) =>
            /\ w.cap >= v.cap
            /\ w.cap # v.cap =>
                 /\ lastv'.op \in {"push", "insert"} /\ lastv'.h = h
                 /\ v.len = v.cap
                 /\ w.cap = (IF v.cap = 0 THEN 1 ELSE 2 * v.cap)
            /\ (lastv'.h = h /\ lastv'.op \in {"push", "insert"} /\ w.len # v.len)
                 => (w.cap # v.cap <=> v.len = v.cap)
    ]_vars

\* an insert into a full array of two elements doubled its capacity to four
C14_Witness ==
  /\ lastv.op = "insert"
  /\ lastv.ret # None
  /\ vecs[lastv.h].len = 3
  /\ vecs[lastv.h].cap = 4
  /\ heap[vecs[lastv.h].ptr].cap = 4

\* C15: insert(index, item) with index > length and remove(index) with
\* index >= length end in a fatal assertion failure that reports the index
\* and the current length, raised before any change to the array: length,
\* capacity and elements are as before the call (no growth, no shift).
C15_OutOfBoundsIsFatal ==
  [][LET h == lastv'.h
         i == lastv'.idx
         v == vecs[h]
         outside == \/ lastv'.op = "insert" /\ i > v.len
                    \/ lastv'.op = "remove" /\ i >= v.len
     IN /\ outside =>
             /\ vpanic' = Some(<<"index", i, "out of bounds", v.len>>)
             /\ lastv'.ret = None
             /\ UNCHANGED <<heap, vecs, drops, out, nextElem, vals, ub>>
        /\ vpanic' # None => outside
    ]_vars

\* an insert at index 3 into a full array of two elements failed the
\* assertion, and the array is still full with capacity two
C15_Witness ==
  /\ lastv.op = "insert"
  /\ vpanic = Some(<<"index", 3, "out of bounds", 2>>)
  /\ vecs[lastv.h].len = 2
  /\ vecs[lastv.h].cap = 2

\* the values of the elements of an array, in index order
ValuesOf(hp, v) == [i \in 1..v.len |-> vals[hp[v.ptr].slots[i]]]

\* C16: converting an array into a Vec and back, or a Vec into an array and
\* back, preserves the element sequence, the length and the capacity exactly
\* and transfers the same allocation without copying elements; an array
\* built by pushing the same values compares equal to the round-tripped one
\* even when their capacities differ.
C16_ConversionRoundTrip ==
  [][LET h == lastv'.h
         v == vecs[h]
         w == vecs'[h]
     IN /\ lastv'.op \in {"into_vec", "from_vec"} =>
             /\ w.state = (IF lastv'.op = "into_vec" THEN "vec" ELSE "live")
             /\ w.ptr = v.ptr /\ w.cap = v.cap /\ w.len = v.len
             /\ UNCHANGED <<heap, vals, drops, out, nextElem, ub, vpanic>>
             /\ Live(heap', w) = Live(heap, v)
        /\ lastv'.op = "eq" =>
             /\ ub' = "none"
             /\ lastv'.ret = Some(ValuesOf(heap, v) = ValuesOf(heap, vecs[lastv'.idx]))
    ]_vars

\* a Vec of length one and capacity two was converted into an array, and an
\* array of capacity one built by pushing the same value compares equal to it
C16_Witness ==
  \E h \in Handles :
    /\ lastv.op = "eq" /\ lastv.h # h /\ lastv.idx = h
    /\ lastv.ret = Some(TRUE)
    /\ vecs[h].cap = 2 /\ vecs[h].len = 1
    /\ vecs[lastv.h].cap = 1 /\ vecs[lastv.h].len = 1

(* --------------- claims about clear, resize and placement -------------- *)
\* the bucket count a map starts with: the configured size, or 1
StartingCapacity == IF SIZE # None THEN SIZE[1] ELSE 1

\* C17: clear() sets the item count to 0 and replaces the bucket array by a
\* fresh one of the starting capacity (the configured initial size, or 1)
\* with every bucket empty, so that every previously stored key is absent
\* afterwards and later insert and entry operations work as on a new map.
C17_ClearGivesNewMap ==
  [][last'.op = "clear" =>
       /\ items' = 0
       /\ Len(buckets') = StartingCapacity
       /\ \A i \in DOMAIN buckets' : buckets'[i] = <<>>
       /\ \A k \in StoredKeys(buckets) : Len(buckets') > 0 /\ GetIn(buckets', k) = None
       /\ \A k \in Keys : \A v \in Vals :
            LET cleared == InsertEffect(buckets', items', k, v)
                new == InsertEffect(<<>>, 0, k, v)
            IN /\ cleared.buckets = new.buckets /\ cleared.items = new.items
               /\ cleared.ret = new.ret /\ cleared.panic = new.panic
       /\ \A k \in Keys : \A v \in Vals :
            LET cleared == EntryEffect(buckets', k, v)
                new == EntryEffect(<<>>, k, v)
            IN /\ cleared.panic = new.panic
               /\ cleared.panic = "none" => cleared.buckets = new.buckets
    ]_vars

\* C18: every insert performs the resize check before locating the target
\* bucket and on the counts before the insert: the bucket array is resized
\* exactly when it is empty or the item count exceeds 3/4 of the bucket
\* count; the new bucket count is the configured initial size (default 1)
\* when the array was empty and twice the bucket count otherwise; when
\* neither condition holds the insert leaves the bucket count unchanged.
C18_ResizeCheckOnInsert ==
  [][last'.op = "insert" =>
       LET n == Len(buckets)
           due == n = 0 \/ 4 * items > 3 * n
           k == last'.key
       IN /\ last'.resized = due
          /\ Len(buckets') = (IF ~due THEN n
                              ELSE IF n = 0 THEN StartingCapacity ELSE 2 * n)
          /\ StoredKeys(buckets') = StoredKeys(buckets) \cup
                                      (IF panic' = "none" THEN {k} ELSE {})
          /\ panic' = "none" =>
               \E j \in DOMAIN buckets'[(hashOf[k] % Len(buckets')) + 1] :
                 buckets'[(hashOf[k] % Len(buckets')) + 1][j] = <<k, last'.val>>
    ]_vars

\* an insert into a map of two buckets holding two items doubled the array
\* before it stored its pair
C18_Witness ==
  /\ last.op = "insert"
  /\ last.resized
  /\ panic = "none"
  /\ Len(buckets) = 4
  /\ items = 3

\* C19: at the end of every public map operation, the resizing ones
\* included, every stored pair (k, v) lies in the bucket with index
\* hash(k) mod the current bucket count; no pair is in another bucket.
C19_PairsInHashBucket ==
  \A i \in DOMAIN buckets : \A j \in DOMAIN buckets[i] :
    (hashOf[buckets[i][j][1]] % Len(buckets)) + 1 = i

\* two keys with different hashes are stored in two different buckets of an
\* array that a resize has brought to four buckets
C19_Witness ==
  /\ Len(buckets) = 4
  /\ \E i \in DOMAIN buckets : \E j \in DOMAIN buckets :
       i # j /\ i # 1 /\ j # 1 /\ buckets[i] # <<>> /\ buckets[j] # <<>>

\* C20: after any sequence of insert, entry(k).or_insert / or_insert_with,
\* remove and clear, no key occurs in more than one stored pair: keys are
\* unique within each bucket and so across the whole map.
C20_KeysUnique ==
  LET pairs == Flatten(buckets)
  IN \A i \in DOMAIN pairs : \A j \in DOMAIN pairs :
       pairs[i][1] = pairs[j][1] => i = j

\* a stored key was inserted again, its value replaced, with a second key
\* stored beside it
C20_Witness ==
  /\ last.op = "insert"
  /\ last.ret # None
  /\ last.ret # Some(last.val)
  /\ StoredCount(buckets) = 2
  /\ Cardinality(StoredKeys(buckets)) = 2

(* ------------------ the array's slots and the load factor -------------- *)
\* element e is live: created, not handed out and not destroyed
LiveElem(e) == e # 0 /\ e < nextElem /\ e \notin out /\ TimesDestroyed(e) = 0

\* C21: in every reachable array state (after any sequence of new, push, pop,
\* insert, remove, drain and conversion from Vec) length <= capacity holds,
\* exactly the slots [0, length) hold initialized live elements, and no
\* operation reads a slot at or beyond the capacity or an uninitialized slot
\* as an element. A slot at or beyond the length is uninitialized or holds
\* the bits an element was moved out of; while an array is being drained its
\* length is 0 and the drain's window holds the elements not yet yielded.
C21_SlotsUpToLengthAreLive ==
  /\ ub = "none"
  /\ \A h \in Handles :
       LET v == vecs[h]
           slots == heap[v.ptr].slots
       IN v.state \in {"live", "drain"} =>
            /\ v.len <= v.cap
            /\ ValidBuf(heap, v)
            /\ v.cap > 0 => Len(slots) = v.cap
            /\ \A i \in 1..v.len : LiveElem(slots[i])
            /\ \A i \in 1..v.len : \A j \in 1..v.len : slots[i] = slots[j] => i = j
            /\ v.state = "live" =>
                 \A i \in (v.len + 1)..v.cap :
                   ~LiveElem(slots[i]) \/ \E j \in 1..v.len : slots[j] = slots[i]
            /\ v.state = "drain" =>
                 /\ v.len = 0 /\ v.start <= v.end /\ v.end <= v.cap
                 /\ \A i \in (v.start + 1)..v.end : LiveElem(slots[i])
            /\ \A h2 \in Handles :
                 (h2 # h /\ vecs[h2].state \in {"live", "drain"}) =>
                   Range(Live(heap, v)) \cap Range(Live(heap, vecs[h2])) = {}
  /\ lastv.op \in {"pop", "remove", "drain_next", "drain_next_back"} =>
       \A i \in DOMAIN lastv.ret : lastv.ret[i] \in out /\ lastv.ret[i] # 0

\* a full array of two elements grew to capacity four on an insert at its
\* front, and a remove then left the slot behind its length with the bits of
\* the element that moved down, the last slot never written
C21_Witness ==
  \E h \in Handles :
    /\ lastv.op = "remove" /\ lastv.h = h /\ lastv.idx = 1
    /\ vecs[h].state = "live"
    /\ vecs[h].len = 2 /\ vecs[h].cap = 4
    /\ Live(heap, vecs[h]) = <<3, 2>>
    /\ heap[vecs[h].ptr].slots[3] = 2
    /\ heap[vecs[h].ptr].slots[4] = 0

\* C22: the load factor stays bounded after any sequence of map operations:
\* whenever the bucket array is non-empty, the number of pairs stored is at
\* most floor(3 x bucket count / 4) + 1, whichever mix of insert,
\* entry(k).or_insert, remove and clear produced the state.
C22_LoadFactorBounded ==
  Len(buckets) > 0 => StoredCount(buckets) <= (3 * Len(buckets)) \div 4 + 1

====
